---- MODULE Spec2Model ----
(***************************************************************************)
(* find_malloc: locate the allocator of a WebAssembly module and export it *)
(* under the name "malloc" (src/src/main.rs).                              *)
(*                                                                         *)
(* A Module is the sequence m.sections.  A section is a record             *)
(*   [kind, body] with kind one of "Type", "Import", "Function", "Export", *)
(*   "Code", "Custom" and body a sequence:                                 *)
(*     Type      FuncType  [params, results] (sequences of value types)    *)
(*     Import    [module, name, desc],  desc = [kind, index]               *)
(*     Function  type indices                                              *)
(*     Export    [name, desc],          desc = [kind, index]               *)
(*     Code      bodies, each a sequence of instructions [op, func]        *)
(*     Custom    [custom, subs]: one element, custom = "Name" carries the  *)
(*               name sub-sections [kind, items], items = [index, value]   *)
(* Option<T> is a sequence of length at most one.  FuncId is its index.    *)
(*                                                                         *)
(* Every section decodes: no try_contents fails, so no DecodeError is      *)
(* returned.  The u32 arithmetic of find_by_wasi cannot wrap here: t + 1   *)
(* counts imports, and func_index - import_func_size is taken only after   *)
(* the test func_index < import_func_size has failed.                      *)
(***************************************************************************)
EXTENDS Integers, Sequences, FiniteSets, TLC

None == <<>>

Some(x) == <<x>>

IsSome(o) == Len(o) > 0

Unwrap(o) == o[1]

MinOf(S) == CHOOSE x \in S : \A y \in S : x <= y

MaxOf(S) == CHOOSE x \in S : \A y \in S : y <= x

(* Module::find_std_section: the body of the first section of the kind. *)
find_std_section(m, kind) ==
    LET at == {i \in 1..Len(m) : m[i].kind = kind}
    IN  IF at = {} THEN None ELSE Some(m[MinOf(at)].body)

(* The contents of a standard section, or the empty vector (lines 99-118). *)
contents_or_empty(m, kind) ==
    LET s == find_std_section(m, kind)
    IN  IF IsSome(s) THEN Unwrap(s) ELSE <<>>

(***************************************************************************)
(* find_from_exports (lines 18-31)                                         *)
(***************************************************************************)
\* A scan that also stops at a "dlmalloc" entry of any kind.
export_arm_any_kind(export) ==
    IF export.name = "malloc" /\ export.desc.kind = "Func"
    THEN Some([func_id |-> export.desc.index, is_malloc |-> TRUE])
    ELSE IF export.name = "dlmalloc"
    THEN Some([func_id |-> export.desc.index, is_malloc |-> FALSE])
    ELSE None

(* The match of lines 23-27 on one export entry. *)
export_arm(export) ==
    IF export.name = "malloc" /\ export.desc.kind = "Func"
    THEN Some([func_id |-> export.desc.index, is_malloc |-> TRUE])
    ELSE IF export.name = "dlmalloc" /\ export.desc.kind = "Func"
    THEN Some([func_id |-> export.desc.index, is_malloc |-> FALSE])
    ELSE None

RECURSIVE scan_exports(_, _)
(* The loop of lines 22-28 from entry i on. *)
scan_exports(exports, i) ==
    IF i > Len(exports) THEN None
    ELSE IF IsSome(export_arm(exports[i])) THEN export_arm(exports[i])
    ELSE scan_exports(exports, i + 1)

find_from_exports(m) ==
    LET blob_exports == find_std_section(m, "Export")
    IN  IF IsSome(blob_exports) THEN scan_exports(Unwrap(blob_exports), 1) ELSE None

(***************************************************************************)
(* find_from_name_section (lines 33-66)                                    *)
(***************************************************************************)
\* A match on "malloc" alone.
name_arm_malloc_only(value) == value = "malloc"

(* The match of lines 49-55 on one name. *)
name_arm(value) == value \in {"malloc", "dlmalloc"}

RECURSIVE scan_items(_, _)
(* The loop of lines 48-56 over the entries of one function-name map. *)
scan_items(items, i) ==
    IF i > Len(items) THEN None
    ELSE IF name_arm(items[i].value) THEN Some(items[i].index)
    ELSE scan_items(items, i + 1)

RECURSIVE scan_names(_, _)
(* The loop of lines 45-58 over the sub-sections of one name section. *)
scan_names(names, i) ==
    IF i > Len(names) THEN None
    ELSE LET found == IF names[i].kind = "Func" THEN scan_items(names[i].items, 1) ELSE None
         IN  IF IsSome(found) THEN found ELSE scan_names(names, i + 1)

RECURSIVE scan_sections(_, _)
(* The loop of lines 39-63 over m.sections. *)
scan_sections(m, i) ==
    IF i > Len(m) THEN None
    ELSE LET found == IF m[i].kind = "Custom" /\ m[i].body[1].custom = "Name"
                      THEN scan_names(m[i].body[1].subs, 1)
                      ELSE None
         IN  IF IsSome(found) THEN found ELSE scan_sections(m, i + 1)

find_from_name_section(m) == scan_sections(m, 1)

(***************************************************************************)
(* find_by_wasi (lines 68-164)                                             *)
(***************************************************************************)
(* The comparison of line 80. *)
import_is_anchor(import, module_name, func_name) ==
    import.module = module_name /\ import.name = func_name

RECURSIVE fold_imports(_, _, _, _, _, _)
(* The fold of lines 79-88 from import i on: t counts the function imports  *)
(* seen so far, target is the FuncId recorded for the anchor.               *)
fold_imports(imports, i, t, target, module_name, func_name) ==
    IF i > Len(imports)
    THEN [import_func_size |-> t, target_wasi_fn_index |-> target]
    ELSE fold_imports(imports, i + 1,
                      IF imports[i].desc.kind = "Func" THEN t + 1 ELSE t,
                      IF import_is_anchor(imports[i], module_name, func_name)
                      THEN Some(t) ELSE target,
                      module_name, func_name)

(* Lines 76-91: zero and no anchor when the module has no import section. *)
count_imports(m, module_name, func_name) ==
    LET s == find_std_section(m, "Import")
    IN  IF IsSome(s)
        THEN fold_imports(Unwrap(s), 1, 0, None, module_name, func_name)
        ELSE [import_func_size |-> 0, target_wasi_fn_index |-> None]

\* A match on the parameters alone.
is_i32_to_i32_params_only(func_type) ==
    func_type.params = <<"I32">>

(* The pattern of line 140: (&[ValueType::I32], &[ValueType::I32]). *)
is_i32_to_i32(func_type) ==
    func_type.params = <<"I32">> /\ func_type.results = <<"I32">>

(* Lines 135-137: funcs.get(i).and_then(|type_index| types.get(type_index)). *)
caller_type(funcs, types, wasm_func_index) ==
    IF wasm_func_index < Len(funcs)
    THEN IF funcs[wasm_func_index + 1] < Len(types)
         THEN Some(types[funcs[wasm_func_index + 1] + 1])
         ELSE None
    ELSE None

(* Lines 129-152: what find_by_wasi returns at the first call that follows *)
(* a call to the anchor.                                                   *)
first_call_after_anchor(func_id, import_func_size, funcs, types) ==
    IF func_id < import_func_size THEN None
    ELSE LET func_type == caller_type(funcs, types, func_id - import_func_size)
         IN  IF IsSome(func_type) /\ is_i32_to_i32(Unwrap(func_type))
             THEN Some(func_id)
             ELSE None

\* A flag that survives from one body to the next.
body_start_flag_kept(find) == find

(* Line 123: every body starts with the flag clear. *)
body_start_flag(find) == FALSE

RECURSIVE scan_expr(_, _, _, _)
(* The loop of lines 125-161 over one body from instruction i on; env holds *)
(* import_func_size, target_wasi_fn_index, funcs and types.  returned tells *)
(* whether the function returned inside the loop, find is the flag.         *)
scan_expr(expr, i, find, env) ==
    IF i > Len(expr) THEN [returned |-> FALSE, value |-> None, find |-> find]
    ELSE IF expr[i].op = "Call"
    THEN IF find
         THEN [returned |-> TRUE,
               value |-> first_call_after_anchor(expr[i].func, env.import_func_size,
                                                 env.funcs, env.types),
               find |-> find]
         ELSE scan_expr(expr, i + 1,
                        IF expr[i].func = env.target_wasi_fn_index THEN TRUE ELSE find,
                        env)
    ELSE scan_expr(expr, i + 1, find, env)

RECURSIVE scan_bodies(_, _, _, _)
(* The loop of lines 120-162 from body b on; last is the flag as the body  *)
(* before left it.                                                         *)
scan_bodies(func_body, b, last, env) ==
    IF b > Len(func_body) THEN None
    ELSE LET r == scan_expr(func_body[b], 1, body_start_flag(last), env)
         IN  IF r.returned THEN r.value ELSE scan_bodies(func_body, b + 1, r.find, env)

find_by_wasi(m, module_name, func_name) ==
    LET c == count_imports(m, module_name, func_name)
    IN  IF ~IsSome(c.target_wasi_fn_index) THEN None
        ELSE scan_bodies(contents_or_empty(m, "Code"), 1, FALSE,
                         [import_func_size |-> c.import_func_size,
                          target_wasi_fn_index |-> Unwrap(c.target_wasi_fn_index),
                          funcs |-> contents_or_empty(m, "Function"),
                          types |-> contents_or_empty(m, "Type")])

(***************************************************************************)
(* The export insertion of export_malloc (lines 194-204)                   *)
(***************************************************************************)
(* The canonical order of the standard sections. *)
SectionOrder(kind) ==
    CASE kind = "Type" -> 1
      [] kind = "Import" -> 2
      [] kind = "Function" -> 3
      [] kind = "Export" -> 7
      [] kind = "Code" -> 10
      [] OTHER -> 0

(* wasmbin's Module::find_or_insert_std_section, called for the export     *)
(* section at line 196: the module with an empty export section put before *)
(* the first standard section that comes later in the canonical order,     *)
(* when it has none.                                                       *)
find_or_insert_std_section(m) ==
    IF IsSome(find_std_section(m, "Export")) THEN m
    ELSE LET later == {i \in 1..Len(m) : m[i].kind # "Custom"
                                         /\ SectionOrder(m[i].kind) > SectionOrder("Export")}
             at == IF later = {} THEN Len(m) + 1 ELSE MinOf(later)
         IN  SubSeq(m, 1, at - 1) \o <<[kind |-> "Export", body |-> <<>>]>>
             \o SubSeq(m, at, Len(m))

\* An insertion at the front of the export list.
push_front(exports, func_id) ==
    <<[name |-> "malloc", desc |-> [kind |-> "Func", index |-> func_id]]>> \o exports

(* Lines 198-201: push the entry ("malloc", Func(func_id)). *)
push(exports, func_id) ==
    Append(exports, [name |-> "malloc", desc |-> [kind |-> "Func", index |-> func_id]])

\* An export section created before the result is looked at.
export_found_eager(m, malloc_func_index) ==
    LET with == find_or_insert_std_section(m)
        at == MinOf({i \in 1..Len(with) : with[i].kind = "Export"})
    IN  IF IsSome(malloc_func_index)
        THEN [with EXCEPT ![at].body = push(@, Unwrap(malloc_func_index))]
        ELSE with

(* Lines 194-204: the module after the if let. *)
export_found(m, malloc_func_index) ==
    IF IsSome(malloc_func_index)
    THEN LET with == find_or_insert_std_section(m)
             at == MinOf({i \in 1..Len(with) : with[i].kind = "Export"})
         IN  [with EXCEPT ![at].body = push(@, Unwrap(malloc_func_index))]
    ELSE m

(***************************************************************************)
(* export_malloc (lines 166-207) and main (lines 209-224) as a machine.    *)
(*   input      the module main decoded from the input file                *)
(*   m          the module export_malloc owns                              *)
(*   pc         the statement export_malloc is at; "returned" after Ok(m)  *)
(*   malloc_func_index   the local of line 167                             *)
(*   consulted  the finders called so far in this run, with what each      *)
(*              yielded (an Option<FuncId>)                                *)
(*   outcome    "Satisfied" (line 172), "Found" (line 195), "NotFound"     *)
(*              (line 203), "" before                                      *)
(*   run        how many times the tool has been started                   *)
(***************************************************************************)
VARIABLES input, m, pc, malloc_func_index, consulted, outcome, run

vars == <<input, m, pc, malloc_func_index, consulted, outcome, run>>

MaxRuns == 2

WASI == "wasi_snapshot_preview1"

Consult(strategy, result) == Append(consulted, [strategy |-> strategy, result |-> result])

(* Lines 170-177. *)
FindFromExports ==
    /\ pc = "find_from_exports"
    /\ LET r == find_from_exports(m)
       IN  IF IsSome(r)
           THEN /\ consulted' = Consult("exports", Some(Unwrap(r).func_id))
                /\ IF Unwrap(r).is_malloc
                   THEN /\ pc' = "returned"
                        /\ outcome' = "Satisfied"
                        /\ UNCHANGED malloc_func_index
                   ELSE /\ pc' = "export"
                        /\ malloc_func_index' = Some(Unwrap(r).func_id)
                        /\ UNCHANGED outcome
           ELSE /\ consulted' = Consult("exports", None)
                /\ pc' = "find_from_name_section"
                /\ UNCHANGED <<malloc_func_index, outcome>>
    /\ UNCHANGED <<input, m, run>>

(* Lines 178-181. *)
FindFromNameSection ==
    /\ pc = "find_from_name_section"
    /\ malloc_func_index' = find_from_name_section(m)
    /\ consulted' = Consult("names", malloc_func_index')
    /\ pc' = IF IsSome(malloc_func_index') THEN "export" ELSE "find_by_wasi_environ"
    /\ UNCHANGED <<input, m, outcome, run>>

(* Lines 183-186. *)
FindByWasiEnviron ==
    /\ pc = "find_by_wasi_environ"
    /\ malloc_func_index' = find_by_wasi(m, WASI, "environ_sizes_get")
    /\ consulted' = Consult("environ_sizes_get", malloc_func_index')
    /\ pc' = IF IsSome(malloc_func_index') THEN "export" ELSE "find_by_wasi_args"
    /\ UNCHANGED <<input, m, outcome, run>>

(* Lines 188-192. *)
FindByWasiArgs ==
    /\ pc = "find_by_wasi_args"
    /\ malloc_func_index' = find_by_wasi(m, WASI, "args_sizes_get")
    /\ consulted' = Consult("args_sizes_get", malloc_func_index')
    /\ pc' = "export"
    /\ UNCHANGED <<input, m, outcome, run>>

(* Lines 194-206. *)
ExportFound ==
    /\ pc = "export"
    /\ m' = export_found(m, malloc_func_index)
    /\ outcome' = IF IsSome(malloc_func_index) THEN "Found" ELSE "NotFound"
    /\ pc' = "returned"
    /\ UNCHANGED <<input, malloc_func_index, consulted, run>>

(* main, started again on the file the run before wrote (lines 212-221). *)
Main ==
    /\ pc = "returned"
    /\ run < MaxRuns
    /\ input' = m
    /\ pc' = "find_from_exports"
    /\ malloc_func_index' = None
    /\ consulted' = <<>>
    /\ outcome' = ""
    /\ run' = run + 1
    /\ UNCHANGED m

Next ==
    \/ FindFromExports
    \/ FindFromNameSection
    \/ FindByWasiEnviron
    \/ FindByWasiArgs
    \/ ExportFound
    \/ Main

(***************************************************************************)
(* The modules main is started on.                                         *)
(***************************************************************************)
SeqsUpTo(S, n) == UNION {[1..k -> S] : k \in 0..n}

OptSection(kind, o) == IF IsSome(o) THEN <<[kind |-> kind, body |-> Unwrap(o)]>> ELSE <<>>

RECURSIVE CustomSections(_)
CustomSections(customs) ==
    IF customs = <<>> THEN <<>>
    ELSE <<[kind |-> "Custom", body |-> <<Head(customs)>>]>> \o CustomSections(Tail(customs))

(* A module in canonical section order, the custom sections last; each of  *)
(* the standard sections is an Option of its contents.                     *)
ModuleOf(decl, exports, code, customs) ==
    OptSection("Type", decl.types) \o OptSection("Import", decl.imports)
    \o OptSection("Function", decl.funcs) \o OptSection("Export", exports)
    \o OptSection("Code", code) \o CustomSections(customs)

Started(module) ==
    /\ input = module
    /\ m = module
    /\ pc = "find_from_exports"
    /\ malloc_func_index = None
    /\ consulted = <<>>
    /\ outcome = ""
    /\ run = 1

Func(i) == [kind |-> "Func", index |-> i]

Global(i) == [kind |-> "Global", index |-> i]

Call(f) == [op |-> "Call", func |-> f]

Nop == [op |-> "Nop", func |-> 0]

I32ToI32 == [params |-> <<"I32">>, results |-> <<"I32">>]

I32I32ToI32 == [params |-> <<"I32", "I32">>, results |-> <<"I32">>]

I32ToI64 == [params |-> <<"I32">>, results |-> <<"I64">>]

Types == <<I32ToI32, I32I32ToI32, I32ToI64>>

Import(module, name, desc) == [module |-> module, name |-> name, desc |-> desc]

Export(name, desc) == [name |-> name, desc |-> desc]

Name(index, value) == [index |-> index, value |-> value]

FuncNames(items) == [kind |-> "Func", items |-> items]

LocalNames == [kind |-> "Local", items |-> <<>>]

NameSection(subs) == [custom |-> "Name", subs |-> subs]

OtherCustom == [custom |-> "Other", subs |-> <<>>]

Decl(types, imports, funcs) == [types |-> types, imports |-> imports, funcs |-> funcs]

Environ(desc) == Import(WASI, "environ_sizes_get", desc)

Args(desc) == Import(WASI, "args_sizes_get", desc)

(* Declarations and code on which the call-pattern heuristic: has nothing  *)
(* to read; finds function 1 after environ_sizes_get; is vetoed for        *)
(* environ_sizes_get and finds function 3 after args_sizes_get; is vetoed. *)
NoWasi == [decl |-> Decl(None, None, None), code |-> None]

WasiFound ==
    [decl |-> Decl(Some(Types), Some(<<Environ(Func(1))>>), Some(<<0>>)),
     code |-> Some(<<<<Call(0), Nop, Call(1)>>>>)]

WasiSecondAnchor ==
    [decl |-> Decl(Some(Types), Some(<<Environ(Func(1)), Args(Func(1))>>), Some(<<1, 0>>)),
     code |-> Some(<<<<Call(0), Call(2)>>, <<Call(1), Call(3)>>>>)]

WasiVetoed ==
    [decl |-> Decl(Some(Types), Some(<<Environ(Func(1))>>), Some(<<1>>)),
     code |-> Some(<<<<Call(0), Call(1)>>>>)]

WasiFixtures == {NoWasi, WasiFound, WasiSecondAnchor, WasiVetoed}

(* ---- Spec: every export list of at most MaxExports entries ---- *)
MaxExports == 3

ExportEntries ==
    {Export("malloc", Func(1)), Export("dlmalloc", Func(2)), Export("dlmalloc", Func(3)),
     Export("malloc", Global(0)), Export("dlmalloc", Global(0)), Export("_start", Func(0))}

ExportSections == {None} \cup {Some(e) : e \in SeqsUpTo(ExportEntries, MaxExports)}

CustomFixtures ==
    {<<>>,
     <<OtherCustom, NameSection(<<FuncNames(<<Name(6, "main"), Name(4, "malloc")>>)>>)>>,
     <<NameSection(<<LocalNames, FuncNames(<<Name(5, "dlmalloc")>>)>>)>>,
     <<OtherCustom, NameSection(<<FuncNames(<<Name(6, "main")>>)>>)>>}

Init ==
    \E exports \in ExportSections, customs \in CustomFixtures, w \in WasiFixtures :
        Started(ModuleOf(w.decl, exports, w.code, customs))

Spec == Init /\ [][Next]_vars

(* ---- SpecNames: name metadata of at most MaxItems entries a map ---- *)
MaxItems == 2

NameValues == {"malloc", "dlmalloc", "main"}

(* The function-name maps whose entries have the indices base+1, base+2, ... *)
NameMaps(base) ==
    {[i \in 1..Len(v) |-> Name(base + i, v[i])] : v \in SeqsUpTo(NameValues, MaxItems)}

CustomLists ==
    {<<>>, <<OtherCustom>>}
    \cup {<<NameSection(<<FuncNames(a)>>)>> : a \in NameMaps(10)}
    \cup {<<NameSection(<<LocalNames, FuncNames(a)>>)>> : a \in NameMaps(10)}
    \cup {<<NameSection(<<FuncNames(a), FuncNames(b)>>)>> :
              a \in NameMaps(10), b \in NameMaps(20)}
    \cup {<<OtherCustom, NameSection(<<FuncNames(a)>>), NameSection(<<FuncNames(b)>>)>> :
              a \in NameMaps(10), b \in NameMaps(20)}

ExportFixtures ==
    {None, Some(<<Export("malloc", Global(0)), Export("_start", Func(0))>>)}

InitNames ==
    \E exports \in ExportFixtures, customs \in CustomLists, w \in {NoWasi, WasiFound} :
        Started(ModuleOf(w.decl, exports, w.code, customs))

SpecNames == InitNames /\ [][Next]_vars

(* ---- SpecWasi: every code section of at most MaxInstrs instructions in ---- *)
(* ---- at most two bodies, over a set of declarations                    ---- *)
MaxInstrs == 3

Decls ==
    {Decl(Some(Types), Some(<<Environ(Func(1)), Args(Func(1))>>), Some(<<0>>)),
     Decl(Some(Types), Some(<<Environ(Func(1))>>), Some(<<1, 0>>)),
     Decl(Some(Types), Some(<<Args(Func(1)), Environ(Func(1))>>), Some(<<2>>)),
     Decl(Some(Types), Some(<<Environ(Global(0))>>), Some(<<0, 1>>)),
     Decl(Some(Types), None, Some(<<0>>)),
     Decl(Some(Types), Some(<<Import("env", "environ_sizes_get", Func(1))>>), Some(<<0>>)),
     Decl(Some(Types), Some(<<Import("env", "alloc", Func(0)), Environ(Func(1))>>), Some(<<0>>)),
     Decl(Some(Types), Some(<<Environ(Func(1)), Environ(Func(1))>>), Some(<<0>>)),
     Decl(None, Some(<<Environ(Func(1))>>), Some(<<0>>))}

OrEmpty(o) == IF IsSome(o) THEN Unwrap(o) ELSE <<>>

(* The number of functions a declaration gives indices to. *)
NumFuncs(decl) ==
    Cardinality({i \in 1..Len(OrEmpty(decl.imports)) :
                     OrEmpty(decl.imports)[i].desc.kind = "Func"})
    + Len(OrEmpty(decl.funcs))

(* Every index some declaration defines, and the first one none does. *)
FuncIds == 0..MaxOf({NumFuncs(decl) : decl \in Decls})

Instrs == {Call(f) : f \in FuncIds} \cup {Nop}

InstrSeqs == SeqsUpTo(Instrs, MaxInstrs)

CodeSections ==
    {None, Some(<<>>)}
    \cup {Some(<<s>>) : s \in InstrSeqs}
    \cup UNION {{Some(<<SubSeq(s, 1, k), SubSeq(s, k + 1, Len(s))>>) : k \in 0..Len(s)} :
                    s \in InstrSeqs}

Frames ==
    {[exports |-> None, customs |-> <<>>],
     [exports |-> Some(<<Export("_start", Func(0))>>),
      customs |-> <<OtherCustom, NameSection(<<FuncNames(<<Name(0, "main")>>)>>)>>]}

InitWasi ==
    \E decl \in Decls, code \in CodeSections, frame \in Frames :
        Started(ModuleOf(decl, frame.exports, code, frame.customs))

SpecWasi == InitWasi /\ [][Next]_vars

(***************************************************************************)
(* What the properties speak of, read off the module itself.               *)
(***************************************************************************)
SectionsOf(mod, kind) == SelectSeq(mod, LAMBDA s : s.kind = kind)

BodyOf(mod, kind) == IF Len(SectionsOf(mod, kind)) = 0 THEN <<>> ELSE SectionsOf(mod, kind)[1].body

ExportsOf(mod) == BodyOf(mod, "Export")

SameSections(a, b) ==
    /\ Len(a) = Len(b)
    /\ \A i \in 1..Len(a) : a[i].kind = b[i].kind /\ a[i].body = b[i].body

WithoutExports(mod) == SelectSeq(mod, LAMBDA s : s.kind # "Export")

MallocEntry(f) == [name |-> "malloc", desc |-> [kind |-> "Func", index |-> f]]

FuncExportsNamed(mod, name) ==
    {i \in 1..Len(ExportsOf(mod)) :
         ExportsOf(mod)[i].name = name /\ ExportsOf(mod)[i].desc.kind = "Func"}

ExportScanInconclusive(mod) ==
    FuncExportsNamed(mod, "malloc") = {} /\ FuncExportsNamed(mod, "dlmalloc") = {}

(* The positions <<section, sub-section, entry>> of the function names      *)
(* "malloc" and "dlmalloc" in the debug-name sections.                      *)
NameMatches(mod) ==
    UNION {UNION {{<<s, n, e>> : e \in {e \in 1..Len(mod[s].body[1].subs[n].items) :
                                      mod[s].body[1].subs[n].items[e].value
                                          \in {"malloc", "dlmalloc"}}} :
                  n \in {n \in 1..Len(mod[s].body[1].subs) :
                             mod[s].body[1].subs[n].kind = "Func"}} :
           s \in {s \in 1..Len(mod) : mod[s].kind = "Custom" /\ mod[s].body[1].custom = "Name"}}

Before(p, q) ==
    \/ p[1] < q[1]
    \/ p[1] = q[1] /\ p[2] < q[2]
    \/ p[1] = q[1] /\ p[2] = q[2] /\ p[3] <= q[3]

FirstNameMatch(mod) == CHOOSE p \in NameMatches(mod) : \A q \in NameMatches(mod) : Before(p, q)

NameAt(mod, p) == mod[p[1]].body[1].subs[p[2]].items[p[3]]

Anchors == {"environ_sizes_get", "args_sizes_get"}

ImportsOf(mod) == BodyOf(mod, "Import")

AnchorImports(mod, anchor) ==
    {i \in 1..Len(ImportsOf(mod)) :
         ImportsOf(mod)[i].module = "wasi_snapshot_preview1" /\ ImportsOf(mod)[i].name = anchor}

FuncImportsBefore(mod, n) ==
    Cardinality({i \in 1..Len(ImportsOf(mod)) : i < n /\ ImportsOf(mod)[i].desc.kind = "Func"})

NumFuncImports(mod) == FuncImportsBefore(mod, Len(ImportsOf(mod)) + 1)

(* The index the anchor has: that of its last import, counted among the    *)
(* function imports.                                                       *)
AnchorFuncId(mod, anchor) == FuncImportsBefore(mod, MaxOf(AnchorImports(mod, anchor)))

CodeOf(mod) == BodyOf(mod, "Code")

(* <<b, j>>: instruction j of body b is a call and follows, in body b, a    *)
(* call to the anchor.                                                     *)
PostAnchorCalls(mod, anchor) ==
    IF AnchorImports(mod, anchor) = {} THEN {}
    ELSE LET code == CodeOf(mod)
             id == AnchorFuncId(mod, anchor)
         IN  UNION {{<<b, j>> : j \in {j \in 1..Len(code[b]) :
                                      /\ code[b][j].op = "Call"
                                      /\ \E i \in 1..(j - 1) :
                                            code[b][i].op = "Call" /\ code[b][i].func = id}} :
                    b \in 1..Len(code)}

FirstPostAnchorCall(mod, anchor) ==
    LET calls == PostAnchorCalls(mod, anchor)
    IN  CHOOSE p \in calls : \A q \in calls : p[1] < q[1] \/ (p[1] = q[1] /\ p[2] <= q[2])

FirstPostAnchorTarget(mod, anchor) ==
    LET p == FirstPostAnchorCall(mod, anchor)
    IN  CodeOf(mod)[p[1]][p[2]].func

TypeAt(mod, type_index) ==
    IF type_index < Len(BodyOf(mod, "Type")) THEN Some(BodyOf(mod, "Type")[type_index + 1]) ELSE None

FuncImports(mod) == SelectSeq(ImportsOf(mod), LAMBDA i : i.desc.kind = "Func")

(* The type of function f of the combined index space, imports first. *)
ResolvedType(mod, f) ==
    IF f < NumFuncImports(mod) THEN TypeAt(mod, FuncImports(mod)[f + 1].desc.index)
    ELSE IF f - NumFuncImports(mod) < Len(BodyOf(mod, "Function"))
    THEN TypeAt(mod, BodyOf(mod, "Function")[f - NumFuncImports(mod) + 1])
    ELSE None

(* The first post-anchor call exists and targets a function whose type is  *)
(* not (i32) -> i32.                                                       *)
Vetoing(mod, anchor) ==
    /\ PostAnchorCalls(mod, anchor) # {}
    /\ LET type == ResolvedType(mod, FirstPostAnchorTarget(mod, anchor))
       IN  IsSome(type) /\ Unwrap(type) # I32ToI32

Strategies == [i \in 1..Len(consulted) |-> consulted[i].strategy]

Yielded(strategy) == {i \in 1..Len(consulted) : consulted[i].strategy = strategy}

(***************************************************************************)
(* Properties                                                              *)
(***************************************************************************)
Returned == pc = "returned"

(* C1: idempotence.  A run started on the output of the run before returns *)
(* that module unchanged: export_malloc(export_malloc(m)) = export_malloc(m). *)
C1_Idempotent ==
    (Returned /\ run >= 2) => SameSections(m, input)

(* C2: export-scan priority.  A module with a function export named        *)
(* "malloc", wherever it stands in the export list, is returned unchanged  *)
(* with outcome Satisfied, and only the export scan is consulted.          *)
C2_MallocExportSatisfied ==
    (Returned /\ FuncExportsNamed(input, "malloc") # {})
        => /\ outcome = "Satisfied"
           /\ SameSections(m, input)
           /\ Strategies = <<"exports">>

(* C3: non-interference.  When all four strategies are inconclusive the    *)
(* run ends NotFound and returns every section of the module as it was,    *)
(* creating no export section.                                             *)
C3_NotFoundUntouched ==
    (Returned /\ Len(consulted) = 4 /\ \A i \in 1..4 : consulted[i].result = None)
        => /\ outcome = "NotFound"
           /\ SameSections(m, input)

C3_Witness ==
    /\ Returned
    /\ outcome = "NotFound"
    /\ Strategies = <<"exports", "names", "environ_sizes_get", "args_sizes_get">>
    /\ Len(SectionsOf(input, "Export")) = 0
    /\ Len(SectionsOf(input, "Code")) = 1
    /\ Vetoing(input, "environ_sizes_get")

(* C4 as stated: export and name scans inconclusive and the first          *)
(* post-anchor call of a call-pattern heuristic that ran targets a         *)
(* function whose type is not (i32) -> i32: no export entry is added.      *)
C4_VetoNoExport ==
    (/\ Returned
     /\ ExportScanInconclusive(input)
     /\ NameMatches(input) = {}
     /\ \E anchor \in Anchors : Yielded(anchor) # {} /\ Vetoing(input, anchor))
        => ExportsOf(m) = ExportsOf(input)

(* C4 amended: export and name scans inconclusive and the first            *)
(* post-anchor call of an anchor targets a function whose type is not      *)
(* (i32) -> i32: the heuristic yields nothing for that anchor, and an      *)
(* export entry is added only for a function the heuristic yielded for the *)
(* other anchor.                                                           *)
C4_VetoPerAnchor ==
    (ExportScanInconclusive(input) /\ NameMatches(input) = {})
        => \A anchor \in Anchors :
               Vetoing(input, anchor)
                   => /\ \A i \in Yielded(anchor) : consulted[i].result = None
                      /\ (Returned /\ ExportsOf(m) # ExportsOf(input))
                             => \E other \in Anchors \ {anchor} :
                                    \E i \in Yielded(other) :
                                        /\ IsSome(consulted[i].result)
                                        /\ ExportsOf(m) = Append(ExportsOf(input),
                                               MallocEntry(Unwrap(consulted[i].result)))

C4_Witness ==
    /\ Returned
    /\ outcome = "NotFound"
    /\ Yielded("environ_sizes_get") # {}
    /\ Vetoing(input, "environ_sizes_get")
    /\ FirstPostAnchorTarget(input, "environ_sizes_get") >= NumFuncImports(input)
    /\ \E p \in PostAnchorCalls(input, "environ_sizes_get") :
           ResolvedType(input, CodeOf(input)[p[1]][p[2]].func) = Some(I32ToI32)

(* C5: dlmalloc short-circuit.  No function export named "malloc" but one  *)
(* named "dlmalloc": the run ends Found(i), i the index of the first such  *)
(* entry, consults the export scan alone, and the export list gains        *)
(* ("malloc", Func(i)).                                                    *)
C5_DlmallocShortCircuit ==
    (/\ Returned
     /\ FuncExportsNamed(input, "malloc") = {}
     /\ FuncExportsNamed(input, "dlmalloc") # {})
        => LET i == ExportsOf(input)[MinOf(FuncExportsNamed(input, "dlmalloc"))].desc.index
           IN  /\ outcome = "Found"
               /\ malloc_func_index = Some(i)
               /\ Strategies = <<"exports">>
               /\ ExportsOf(m) = Append(ExportsOf(input), MallocEntry(i))

C5_Witness ==
    /\ Returned
    /\ run = 1
    /\ FuncExportsNamed(input, "malloc") = {}
    /\ Cardinality(FuncExportsNamed(input, "dlmalloc")) = 2
    /\ MinOf(FuncExportsNamed(input, "dlmalloc")) > 1
    /\ NameMatches(input) # {}
    /\ PostAnchorCalls(input, "environ_sizes_get") # {}
    /\ malloc_func_index = Some(3)

(* C6: name-metadata scan.  Export scan inconclusive and some function     *)
(* name is "malloc" or "dlmalloc": the run ends Found(f), f the FuncId of  *)
(* the first such entry in scan order, and the call-pattern heuristics are *)
(* not consulted.                                                          *)
C6_NameScanFirst ==
    (Returned /\ ExportScanInconclusive(input) /\ NameMatches(input) # {})
        => /\ outcome = "Found"
           /\ malloc_func_index = Some(NameAt(input, FirstNameMatch(input)).index)
           /\ Strategies = <<"exports", "names">>

C6_Witness ==
    /\ Returned
    /\ ExportScanInconclusive(input)
    /\ Cardinality(NameMatches(input)) >= 2
    /\ NameAt(input, FirstNameMatch(input)).value = "dlmalloc"
    /\ FirstNameMatch(input)[3] = 2
    /\ \E q \in NameMatches(input) : q[1] > FirstNameMatch(input)[1]
    /\ PostAnchorCalls(input, "environ_sizes_get") # {}
    /\ malloc_func_index = Some(NameAt(input, FirstNameMatch(input)).index)

(* C7: the mutation is a single append.  A run that ends Found(f) returns  *)
(* the input's export list followed by ("malloc", Func(f)) and every other *)
(* section as it was; no run adds more than one entry.                     *)
C7_SingleAppend ==
    /\ Len(ExportsOf(m)) <= Len(ExportsOf(input)) + 1
    /\ (Returned /\ outcome = "Found")
           => /\ IsSome(malloc_func_index)
              /\ ExportsOf(m) = Append(ExportsOf(input), MallocEntry(Unwrap(malloc_func_index)))
              /\ Len(SectionsOf(m, "Export")) = 1
              /\ SameSections(WithoutExports(m), WithoutExports(input))

C7_Witness ==
    /\ Returned
    /\ outcome = "Found"
    /\ run = 1
    /\ Len(ExportsOf(input)) >= 2
    /\ Len(SectionsOf(input, "Custom")) >= 1
    /\ Strategies = <<"exports", "names", "environ_sizes_get", "args_sizes_get">>

(* C8: soundness of the call-pattern heuristic.  A FuncId c it yields is   *)
(* not a host import, local function c - import_func_size has type         *)
(* (i32) -> i32, and c is the target of the first call that follows a call *)
(* to the anchor in the earliest body with such a pair.                    *)
C8_WasiSound ==
    \A anchor \in Anchors : \A i \in Yielded(anchor) :
        IsSome(consulted[i].result)
            => LET c == Unwrap(consulted[i].result)
               IN  /\ c >= NumFuncImports(input)
                   /\ c - NumFuncImports(input) < Len(BodyOf(input, "Function"))
                   /\ TypeAt(input, BodyOf(input, "Function")[c - NumFuncImports(input) + 1])
                          = Some(I32ToI32)
                   /\ PostAnchorCalls(input, anchor) # {}
                   /\ FirstPostAnchorTarget(input, anchor) = c

C8_Witness ==
    /\ Yielded("environ_sizes_get") # {}
    /\ IsSome(consulted[3].result)
    /\ Len(CodeOf(input)) = 2
    /\ FirstPostAnchorCall(input, "environ_sizes_get")[1] = 2
    /\ \E j \in 1..Len(CodeOf(input)[1]) :
           CodeOf(input)[1][j] = Call(AnchorFuncId(input, "environ_sizes_get"))

(* C9: preconditions of the call-pattern heuristic.  It yields nothing     *)
(* when no import is the anchor, when the module has no function imports,  *)
(* or when it has no code bodies.                                          *)
C9_WasiPreconditions ==
    \A anchor \in Anchors : \A i \in Yielded(anchor) :
        (\/ AnchorImports(input, anchor) = {}
         \/ NumFuncImports(input) = 0
         \/ Len(CodeOf(input)) = 0)
            => consulted[i].result = None

(* C10: uniqueness of export names.  An input whose export names are       *)
(* pairwise distinct yields an output whose export names are pairwise      *)
(* distinct.                                                               *)
DistinctNames(exports) ==
    \A i, j \in 1..Len(exports) : exports[i].name = exports[j].name => i = j

C10_UniqueExportNames ==
    (Returned /\ DistinctNames(ExportsOf(input))) => DistinctNames(ExportsOf(m))

====
